---- MODULE Spec2Model ----
(***************************************************************************)
(* Model of scripts/download_weights.py: the subfolder classifier, the     *)
(* entry resolver, the pget adapter, the urllib fallback fetcher and the   *)
(* orchestrator main().                                                    *)
(*                                                                         *)
(* Text is modelled at character level: a Python str is a sequence of      *)
(* one-character strings.  The input alphabet has no tab, CR, LF, ';' or   *)
(* control characters, and percent escapes are limited to %20, %2E, %2F.   *)
(***************************************************************************)
EXTENDS Integers, Sequences, FiniteSets, TLC

(* ---- string literals (character sequences) ---- *)
S_checkpoints ==
    <<"c", "h", "e", "c", "k", "p", "o", "i", "n", "t", "s">>
S_clip ==
    <<"c", "l", "i", "p">>
S_clip_vision ==
    <<"c", "l", "i", "p", "_", "v", "i", "s", "i", "o", "n">>
S_controlnet ==
    <<"c", "o", "n", "t", "r", "o", "l", "n", "e", "t">>
S_diffusion_models ==
    <<"d", "i", "f", "f", "u", "s", "i", "o", "n", "_", "m", "o", "d", "e", "l", "s">>
S_embeddings ==
    <<"e", "m", "b", "e", "d", "d", "i", "n", "g", "s">>
S_loras ==
    <<"l", "o", "r", "a", "s">>
S_text_encoders ==
    <<"t", "e", "x", "t", "_", "e", "n", "c", "o", "d", "e", "r", "s">>
S_unet ==
    <<"u", "n", "e", "t">>
S_vae ==
    <<"v", "a", "e">>
S_vae_approx ==
    <<"v", "a", "e", "_", "a", "p", "p", "r", "o", "x">>
S_upscale_models ==
    <<"u", "p", "s", "c", "a", "l", "e", "_", "m", "o", "d", "e", "l", "s">>
S_hypernetworks ==
    <<"h", "y", "p", "e", "r", "n", "e", "t", "w", "o", "r", "k", "s">>
S_photomaker ==
    <<"p", "h", "o", "t", "o", "m", "a", "k", "e", "r">>
S_style_models ==
    <<"s", "t", "y", "l", "e", "_", "m", "o", "d", "e", "l", "s">>
S_models ==
    <<"m", "o", "d", "e", "l", "s">>
S_downloaded ==
    <<"d", "o", "w", "n", "l", "o", "a", "d", "e", "d", ".", "s", "a", "f", "e", "t", "e", "n", "s", "o", "r", "s">>
K_ae_safetensors ==
    <<"a", "e", ".", "s", "a", "f", "e", "t", "e", "n", "s", "o", "r", "s">>
K_text_encoder ==
    <<"t", "e", "x", "t", "_", "e", "n", "c", "o", "d", "e", "r">>
K_qwen ==
    <<"q", "w", "e", "n">>
K_t5 ==
    <<"t", "5">>
K_lora ==
    <<"l", "o", "r", "a">>
K_control_net ==
    <<"c", "o", "n", "t", "r", "o", "l", "_", "n", "e", "t">>
K_upscale ==
    <<"u", "p", "s", "c", "a", "l", "e">>
K_esrgan ==
    <<"e", "s", "r", "g", "a", "n">>
K_realesrgan ==
    <<"r", "e", "a", "l", "e", "s", "r", "g", "a", "n">>
K_embedding ==
    <<"e", "m", "b", "e", "d", "d", "i", "n", "g">>
K_ti_ ==
    <<"t", "i", "_">>
K_diffusion ==
    <<"d", "i", "f", "f", "u", "s", "i", "o", "n">>
Home ==
    <<"/", "h">>
BasePlain ==
    <<"/", "s">>
BaseTilde ==
    <<"~", "/", "s">>
U_vae_ft ==
    <<"h", "t", "t", "p", "s", ":", "/", "/", "e", "x", "a", "m", "p", "l", "e", ".", "c", "o", "m", "/", "x", "/", "v", "a", "e", "_", "f", "t", ".", "s", "a", "f", "e", "t", "e", "n", "s", "o", "r", "s">>
U_vae ==
    <<"h", "t", "t", "p", "s", ":", "/", "/", "e", "x", "a", "m", "p", "l", "e", ".", "c", "o", "m", "/", "x", "/", "v", "a", "e", ".", "s", "a", "f", "e", "t", "e", "n", "s", "o", "r", "s">>
U_my_lora ==
    <<"h", "t", "t", "p", "s", ":", "/", "/", "e", "x", "a", "m", "p", "l", "e", ".", "c", "o", "m", "/", "m", "o", "d", "e", "l", "s", "/", "m", "y", "_", "l", "o", "r", "a", ".", "s", "a", "f", "e", "t", "e", "n", "s", "o", "r", "s">>
U_model ==
    <<"h", "t", "t", "p", "s", ":", "/", "/", "e", "x", "a", "m", "p", "l", "e", ".", "c", "o", "m", "/", "x", "/", "m", "o", "d", "e", "l", ".", "s", "a", "f", "e", "t", "e", "n", "s", "o", "r", "s">>
U_space ==
    <<"h", "t", "t", "p", "s", ":", "/", "/", "e", "x", "a", "m", "p", "l", "e", ".", "c", "o", "m", "/", "x", "/", "%", "2", "0", "w", "e", "i", "g", "h", "t", "s", ".", "s", "a", "f", "e", "t", "e", "n", "s", "o", "r", "s">>
U_enc_slash ==
    <<"h", "t", "t", "p", "s", ":", "/", "/", "e", "x", "a", "m", "p", "l", "e", ".", "c", "o", "m", "/", "x", "/", "%", "2", "F", "e", "t", "c", "%", "2", "F", "p", "a", "s", "s", "w", "d">>
U_dotdot ==
    <<"h", "t", "t", "p", "s", ":", "/", "/", "e", "x", "a", "m", "p", "l", "e", ".", "c", "o", "m", "/", "x", "/", "%", "2", "E", "%", "2", "E">>
U_nopath ==
    <<"h", "t", "t", "p", "s", ":", "/", "/", "e", "x", "a", "m", "p", "l", "e", ".", "c", "o", "m">>
U_trailing ==
    <<"h", "t", "t", "p", "s", ":", "/", "/", "e", "x", "a", "m", "p", "l", "e", ".", "c", "o", "m", "/", "x", "/", "u", "n", "e", "t", ".", "p", "t", "/", "?", "r", "=", "a", "/", "b", "#", "f", "/", "g">>
U_upper ==
    <<"h", "t", "t", "p", "s", ":", "/", "/", "e", "x", "a", "m", "p", "l", "e", ".", "c", "o", "m", "/", "x", "/", "C", "L", "I", "P", "-", "L", ".", "s", "a", "f", "e", "t", "e", "n", "s", "o", "r", "s">>
U_clip_vision ==
    <<"h", "t", "t", "p", "s", ":", "/", "/", "e", "x", "a", "m", "p", "l", "e", ".", "c", "o", "m", "/", "x", "/", "c", "l", "i", "p", "_", "v", "i", "s", "i", "o", "n", "-", "g", ".", "s", "a", "f", "e", "t", "e", "n", "s", "o", "r", "s">>
U_lora_clip ==
    <<"h", "t", "t", "p", "s", ":", "/", "/", "e", "x", "a", "m", "p", "l", "e", ".", "c", "o", "m", "/", "x", "/", "l", "o", "r", "a", "-", "c", "l", "i", "p", ".", "s", "a", "f", "e", "t", "e", "n", "s", "o", "r", "s">>
U_noscheme ==
    <<"e", "x", "a", "m", "p", "l", "e", ".", "c", "o", "m", "/", "x", "/", "m", ".", "s", "a", "f", "e", "t", "e", "n", "s", "o", "r", "s">>
T_foo ==
    <<"f", "o", "o">>
L_comment ==
    <<"#", " ", "w", "e", "i", "g", "h", "t", "s">>
R_a ==
    <<"h", "t", "t", "p", ":", "/", "/", "h", "/", "a", ".", "p", "t">>
R_b ==
    <<"h", "t", "t", "p", ":", "/", "/", "h", "/", "b", ".", "p", "t">>
R_bad ==
    <<"h", "/", "c", ".", "p", "t">>
R_comment ==
    <<"#", "c">>

(* ---- bounds ---- *)
MaxLines ==
    2

(* ---- generic str helpers ---- *)
RECURSIVE Flatten(_)
Flatten(ss) ==
    IF ss = <<>> THEN <<>> ELSE Head(ss) \o Flatten(Tail(ss))

StartsWith(s, p) ==
    Len(s) >= Len(p) /\ SubSeq(s, 1, Len(p)) = p

\* index of the first occurrence of character c in s, 0 when absent (str.find + 1)
Find(s, c) ==
    IF \E k \in 1..Len(s) : s[k] = c
    THEN CHOOSE k \in 1..Len(s) : s[k] = c /\ \A m \in 1..(k - 1) : s[m] # c
    ELSE 0

\* str.strip() over the whitespace of the alphabet
RECURSIVE LStrip(_)
LStrip(s) ==
    IF s # <<>> /\ Head(s) = " " THEN LStrip(Tail(s)) ELSE s

RECURSIVE RStrip(_, _)
RStrip(s, c) ==
    IF s # <<>> /\ s[Len(s)] = c THEN RStrip(SubSeq(s, 1, Len(s) - 1), c) ELSE s

Strip(s) ==
    RStrip(LStrip(s), " ")

\* str.lower()
LowerChar(c) ==
    CASE c = "C" -> "c" [] c = "L" -> "l" [] c = "I" -> "i" [] c = "P" -> "p"
      [] c = "E" -> "e" [] c = "F" -> "f" [] OTHER -> c

Lower(s) ==
    [k \in 1..Len(s) |-> LowerChar(s[k])]

\* str.split(None, 1) on a stripped string that holds a space
SplitFirst(s) ==
    LET sp == Find(s, " ")
    IN  <<SubSeq(s, 1, sp - 1), LStrip(SubSeq(s, sp, Len(s)))>>

\* str.split("/")[-1]
LastSegment(s) ==
    IF \E k \in 1..Len(s) : s[k] = "/"
    THEN LET last == CHOOSE k \in 1..Len(s) :
                        s[k] = "/" /\ \A m \in (k + 1)..Len(s) : s[m] # "/"
         IN  SubSeq(s, last + 1, Len(s))
    ELSE s

(* ---- re: \b(alt|alt)\b searched in s ---- *)
WordChars ==
    {"a", "b", "c", "d", "e", "f", "g", "h", "i", "j", "k", "l", "m", "n", "o",
     "p", "q", "r", "s", "t", "u", "v", "w", "x", "y", "z",
     "A", "B", "C", "D", "E", "F", "G", "H", "I", "J", "K", "L", "M", "N", "O",
     "P", "Q", "R", "S", "T", "U", "V", "W", "X", "Y", "Z",
     "0", "1", "2", "3", "4", "5", "6", "7", "8", "9", "_"}

IsWordAt(s, k) ==
    k >= 1 /\ k <= Len(s) /\ s[k] \in WordChars

\* \b between positions k and k+1 of s
Boundary(s, k) ==
    IsWordAt(s, k) # IsWordAt(s, k + 1)

OccursAt(s, kw, p) ==
    p + Len(kw) - 1 <= Len(s) /\ SubSeq(s, p, p + Len(kw) - 1) = kw

\* re.search(r"\b(k1|k2|...)\b", s) is not None
ReSearchWord(alts, s) ==
    \E kw \in alts : \E p \in 1..Len(s) :
        OccursAt(s, kw, p) /\ Boundary(s, p - 1) /\ Boundary(s, p + Len(kw) - 1)

(* ---- the classifier ---- *)
SUBFOLDERS ==
    {S_checkpoints, S_clip, S_clip_vision, S_controlnet, S_diffusion_models,
     S_embeddings, S_loras, S_text_encoders, S_unet, S_vae, S_vae_approx,
     S_upscale_models, S_hypernetworks, S_photomaker, S_style_models}

SUBFOLDER_HINTS ==
    << <<{S_vae, K_ae_safetensors}, S_vae>>,
       <<{S_clip, K_text_encoder, K_qwen, K_t5}, S_text_encoders>>,
       <<{S_clip_vision}, S_clip_vision>>,
       <<{K_lora, S_loras}, S_loras>>,
       <<{S_controlnet, K_control_net}, S_controlnet>>,
       <<{K_upscale, K_esrgan, K_realesrgan}, S_upscale_models>>,
       <<{K_embedding, S_embeddings, K_ti_}, S_embeddings>>,
       <<{S_unet}, S_unet>>,
       <<{K_diffusion}, S_diffusion_models>> >>

infer_subfolder(url_or_filename) ==
    LET s == Lower(url_or_filename)
        hits == {r \in 1..Len(SUBFOLDER_HINTS) : ReSearchWord(SUBFOLDER_HINTS[r][1], s)}
    IN  IF hits = {} THEN S_checkpoints
        ELSE SUBFOLDER_HINTS[CHOOSE r \in hits : \A q \in hits : r <= q][2]

(* ---- urllib.parse ---- *)
SchemeChars ==
    (WordChars \ {"_"}) \cup {"+", "-", "."}

Letters ==
    WordChars \ {"0", "1", "2", "3", "4", "5", "6", "7", "8", "9", "_"}

\* the text left after urlsplit removed a leading "scheme:"
AfterScheme(url) ==
    LET c == Find(url, ":")
    IN  IF c > 1 /\ url[1] \in Letters /\ \A k \in 1..(c - 1) : url[k] \in SchemeChars
        THEN SubSeq(url, c + 1, Len(url))
        ELSE url

\* index of the first character of s at or after position from that is in delims, Len(s)+1 when none
FirstDelim(s, from, delims) ==
    IF \E k \in from..Len(s) : s[k] \in delims
    THEN CHOOSE k \in from..Len(s) :
            s[k] \in delims /\ \A m \in from..(k - 1) : s[m] \notin delims
    ELSE Len(s) + 1

\* urlparse(url).path
UrlPath(url) ==
    LET rest   == AfterScheme(url)
        noNet  == IF StartsWith(rest, <<"/", "/">>)
                  THEN SubSeq(rest, FirstDelim(rest, 3, {"/", "?", "#"}), Len(rest))
                  ELSE rest
        noFrag == SubSeq(noNet, 1, FirstDelim(noNet, 1, {"#"}) - 1)
    IN  SubSeq(noFrag, 1, FirstDelim(noFrag, 1, {"?"}) - 1)

PercentTable ==
    [p \in {<<"2", "0">>, <<"2", "E">>, <<"2", "F">>} |->
        CASE p = <<"2", "0">> -> " " [] p = <<"2", "E">> -> "." [] OTHER -> "/"]

\* urllib.parse.unquote
RECURSIVE unquote(_)
unquote(s) ==
    IF s = <<>> THEN <<>>
    ELSE IF s[1] = "%" /\ Len(s) >= 3 /\ <<s[2], s[3]>> \in DOMAIN PercentTable
         THEN <<PercentTable[<<s[2], s[3]>>]>> \o unquote(SubSeq(s, 4, Len(s)))
         ELSE <<s[1]>> \o unquote(Tail(s))

\* urllib.request.Request(url) raises ValueError("unknown url type") unless
\* the text starts with "<type>:" where <type> is non-empty and has no '/'
HasUrlType(url) ==
    LET c == Find(url, ":")
    IN  c > 1 /\ \A k \in 1..(c - 1) : url[k] # "/"

(* ---- os.path ---- *)
PathJoin(a, b) ==
    IF StartsWith(b, <<"/">>) THEN b
    ELSE IF a = <<>> \/ a[Len(a)] = "/" THEN a \o b
    ELSE a \o <<"/">> \o b

\* os.path.expanduser for "~" and "~/..." (HOME set)
expanduser(path) ==
    IF ~StartsWith(path, <<"~">>) THEN path
    ELSE LET sl == FirstDelim(path, 1, {"/"})
         IN  IF sl = 2
             THEN LET p == RStrip(Home, "/") \o SubSeq(path, sl, Len(path))
                  IN  IF p = <<>> THEN <<"/">> ELSE p
             ELSE path

(* ---- the entry resolver ---- *)
None ==
    <<"None">>

\* lines 103-110: the subfolder chosen for a stripped, non-ignored line
select_subfolder(line, default_subfolder) ==
    LET dflt == IF default_subfolder \in SUBFOLDERS THEN default_subfolder
                ELSE S_checkpoints
    IN  IF Find(line, " ") > 0
        THEN LET sub == Lower(Strip(SplitFirst(line)[2]))
             IN  IF sub \in SUBFOLDERS THEN sub ELSE dflt
        ELSE IF default_subfolder = None \/ default_subfolder \notin SUBFOLDERS
             THEN infer_subfolder(line)
             ELSE dflt

\* lines 104-105: the URL text of a stripped, non-ignored line
line_url(line) ==
    IF Find(line, " ") > 0 THEN SplitFirst(line)[1] ELSE line

\* lines 114-116: the file name taken from the URL
dest_name(url) ==
    LET name == LastSegment(RStrip(UrlPath(url), "/"))
    IN  IF name # <<>> THEN unquote(name) ELSE S_downloaded

\* (url, dest_path, is_skip), plus the chosen subfolder and name for inspection
resolve_url_dest(raw, base_dir, overwrite_flag, default_subfolder, files) ==
    LET line == Strip(raw)
    IN  IF line = <<>> \/ StartsWith(line, <<"#">>)
        THEN [url |-> None, dest |-> None, is_skip |-> TRUE,
              subfolder |-> None, name |-> None, existed |-> FALSE]
        ELSE LET subfolder == select_subfolder(line, default_subfolder)
                 url       == line_url(line)
                 model_dir == PathJoin(PathJoin(expanduser(base_dir), S_models), subfolder)
                 name      == dest_name(url)
                 out_path  == PathJoin(model_dir, name)
             IN  IF out_path \in files /\ ~overwrite_flag
                 THEN [url |-> None, dest |-> out_path, is_skip |-> TRUE,
                       subfolder |-> subfolder, name |-> name, existed |-> TRUE]
                 ELSE [url |-> url, dest |-> out_path, is_skip |-> FALSE,
                       subfolder |-> subfolder, name |-> name,
                       existed |-> out_path \in files]

(* ---- the pget adapter ---- *)
NoBin ==
    "none"

\* outcomes of get_pget_binary() in an environment: the handle returned and
\* whether the "Could not install pget" diagnostic was printed
get_pget_binary(env) ==
    CASE env = "on_path"   -> {[bin |-> "which_pget", failed |-> FALSE]}
      [] env = "local_bin" -> {[bin |-> "local_pget", failed |-> FALSE]}
      [] OTHER             -> {[bin |-> "local_pget", failed |-> FALSE],
                               [bin |-> NoBin, failed |-> TRUE]}

\* outcomes of download_with_pget(): subprocess.run returns an exit status or raises
download_with_pget ==
    {"ok", "nonzero", "raise"}

(* ---- the fallback fetcher ---- *)
Absent ==
    "absent"

Content(files, path) ==
    IF path \in DOMAIN files THEN files[path] ELSE Absent

WriteFile(files, path, what) ==
    [p \in DOMAIN files \cup {path} |-> IF p = path THEN what ELSE files[p]]

\* download_one_fallback without the line 135 existence guard
download_one_fallback_NoGuard(url, dest_path, overwrite_flag, files) ==
    IF ~HasUrlType(url)
    THEN {[status |-> "raised", net |-> FALSE, files |-> files]}
    ELSE {[status |-> "error", net |-> TRUE, files |-> files],
          [status |-> "error", net |-> TRUE, files |-> WriteFile(files, dest_path, "partial")],
          [status |-> "ok", net |-> TRUE, files |-> WriteFile(files, dest_path, "urllib")]}

\* outcomes of download_one_fallback(url, dest_path, overwrite) on the files:
\* status "raised" is an exception leaving the function
download_one_fallback(url, dest_path, overwrite_flag, files) ==
    IF dest_path \in DOMAIN files /\ ~overwrite_flag
    THEN {[status |-> "skipped", net |-> FALSE, files |-> files]}
    ELSE IF ~HasUrlType(url)
    THEN {[status |-> "raised", net |-> FALSE, files |-> files]}
    ELSE {[status |-> "error", net |-> TRUE, files |-> files],
          [status |-> "error", net |-> TRUE, files |-> WriteFile(files, dest_path, "partial")],
          [status |-> "ok", net |-> TRUE, files |-> WriteFile(files, dest_path, "urllib")]}

(* ---- the orchestrator ---- *)
VARIABLES
    urls, base, base_ok, overwrite, default_sub, no_pget, pget_env,
    fs, pc, i, entries, skipped_paths, decisions,
    use_pget, pget_bin, manifest, manifest_made, batch,
    j, ok, skipped, err, calls, out, exit_status, ended

vars ==
    <<urls, base, base_ok, overwrite, default_sub, no_pget, pget_env,
      fs, pc, i, entries, skipped_paths, decisions,
      use_pget, pget_bin, manifest, manifest_made, batch,
      j, ok, skipped, err, calls, out, exit_status, ended>>

inputs ==
    <<urls, base, base_ok, overwrite, default_sub, no_pget, pget_env>>

Line(stream, kind, path, n, m) ==
    [stream |-> stream, kind |-> kind, path |-> path, n |-> n, m |-> m]

SkippedLines(paths) ==
    [k \in 1..Len(paths) |-> Line("stdout", "skipped", paths[k], 0, 0)]

RunLines ==
    {R_a, R_b, R_bad, R_comment}

SeqsUpTo(S, n) ==
    UNION {[1..k -> S] : k \in 0..n}

InitLocals ==
    /\ pc = "start"
    /\ i = 1
    /\ entries = <<>>
    /\ skipped_paths = <<>>
    /\ decisions = <<>>
    /\ use_pget = FALSE
    /\ pget_bin = NoBin
    /\ manifest = None
    /\ manifest_made = FALSE
    /\ batch = "none"
    /\ j = 1
    /\ ok = 0
    /\ skipped = 0
    /\ err = 0
    /\ calls = <<>>
    /\ out = <<>>
    /\ exit_status = -1
    /\ ended = "running"

Init ==
    /\ urls \in SeqsUpTo(RunLines, MaxLines)
    /\ base = BasePlain
    /\ base_ok \in BOOLEAN
    /\ overwrite \in BOOLEAN
    /\ default_sub = None
    /\ no_pget \in BOOLEAN
    /\ pget_env \in {"on_path", "local_bin", "missing"}
    /\ \E pre \in SUBSET {resolve_url_dest(R_a, base, TRUE, default_sub, {}).dest} :
          fs = [p \in pre |-> "pre"]
    /\ InitLocals

\* lines 182-185
CheckBase ==
    /\ pc = "start"
    /\ IF base_ok
       THEN /\ pc' = "resolve"
            /\ UNCHANGED <<out, exit_status, ended>>
       ELSE /\ pc' = "exited"
            /\ out' = Append(out, Line("stderr", "nobase", base, 0, 0))
            /\ exit_status' = 1
            /\ ended' = "nobase"
    /\ UNCHANGED <<inputs, fs, i, entries, skipped_paths, decisions, use_pget, pget_bin,
                   manifest, manifest_made, batch, j, ok, skipped, err, calls>>

\* lines 195-202, one iteration
ResolveLine ==
    /\ pc = "resolve"
    /\ i <= Len(urls)
    /\ LET r == resolve_url_dest(urls[i], base, overwrite, default_sub, DOMAIN fs)
       IN  /\ decisions' = Append(decisions, r)
           /\ IF r.url = None /\ r.is_skip /\ r.dest # None
              THEN /\ skipped_paths' = Append(skipped_paths, r.dest)
                   /\ UNCHANGED entries
              ELSE IF r.url = None
              THEN UNCHANGED <<skipped_paths, entries>>
              ELSE /\ entries' = Append(entries, <<r.url, r.dest>>)
                   /\ UNCHANGED skipped_paths
    /\ i' = i + 1
    /\ UNCHANGED <<inputs, fs, pc, use_pget, pget_bin, manifest, manifest_made, batch,
                   j, ok, skipped, err, calls, out, exit_status, ended>>

\* lines 204-208
ReportEmpty ==
    /\ pc = "resolve"
    /\ i > Len(urls)
    /\ entries = <<>>
    /\ out' = out \o SkippedLines(skipped_paths)
                  \o <<Line("stderr", "done", None, 0, Len(skipped_paths))>>
    /\ pc' = "done"
    /\ exit_status' = 0
    /\ ended' = "empty"
    /\ UNCHANGED <<inputs, fs, i, entries, skipped_paths, decisions, use_pget, pget_bin,
                   manifest, manifest_made, batch, j, ok, skipped, err, calls>>

\* line 231
NeedsFallback(use, bin, ents) ==
    ~use \/ ~(bin # NoBin /\ ents # <<>>)

\* lines 210-217
LocatePget ==
    /\ pc = "resolve"
    /\ i > Len(urls)
    /\ entries # <<>>
    /\ use_pget' = ~no_pget
    /\ \E g \in (IF ~no_pget THEN get_pget_binary(pget_env)
                 ELSE {[bin |-> NoBin, failed |-> FALSE]}) :
          /\ pget_bin' = g.bin
          /\ out' = IF g.failed
                    THEN Append(out, Line("stderr", "install_failed", None, 0, 0))
                    ELSE out
          /\ IF g.bin # NoBin /\ entries # <<>>
             THEN /\ manifest' = entries
                  /\ manifest_made' = TRUE
                  /\ pc' = "pget"
             ELSE /\ UNCHANGED <<manifest, manifest_made>>
                  /\ pc' = "fallback"
    /\ UNCHANGED <<inputs, fs, i, entries, skipped_paths, decisions, batch,
                   j, ok, skipped, err, calls, exit_status, ended>>

EntryDests ==
    {entries[k][2] : k \in 1..Len(entries)}

RECURSIVE WriteAll(_, _, _)
WriteAll(files, paths, what) ==
    IF paths = {} THEN files
    ELSE LET p == CHOOSE q \in paths : TRUE
         IN  WriteAll(WriteFile(files, p, what), paths \ {p}, what)

\* line 219, the call: the external tool runs on the manifest
RunPget ==
    /\ pc = "pget"
    /\ \E r \in download_with_pget :
          /\ batch' = r
          /\ \E written \in SUBSET EntryDests :
                /\ r = "ok" => written = EntryDests
                /\ r = "raise" => written = {}
                /\ fs' = WriteAll(fs, {p \in written : overwrite \/ p \notin DOMAIN fs}, "pget")
    /\ pc' = "after_pget"
    /\ UNCHANGED <<inputs, i, entries, skipped_paths, decisions, use_pget, pget_bin,
                   manifest, manifest_made, j, ok, skipped, err, calls, out,
                   exit_status, ended>>

\* AfterPget with the unlink in the try body instead of the finally clause
AfterPget_NoFinally ==
    /\ pc = "after_pget"
    /\ manifest' = IF batch = "raise" THEN manifest ELSE None
    /\ LET use == IF batch = "ok" THEN use_pget ELSE FALSE
           printed == CASE batch = "ok" ->
                             [k \in 1..Len(entries) |->
                                 Line("stdout", "path", entries[k][2], 0, 0)]
                             \o <<Line("stderr", "done_pget", None, Len(entries), 0)>>
                        [] batch = "raise" ->
                             <<Line("stderr", "pget_failed", None, 0, 0)>>
                        [] OTHER -> <<>>
       IN  /\ use_pget' = use
           /\ out' = out \o printed
           /\ IF NeedsFallback(use, pget_bin, entries)
              THEN /\ pc' = "fallback"
                   /\ UNCHANGED <<exit_status, ended>>
              ELSE /\ pc' = "done"
                   /\ exit_status' = 0
                   /\ ended' = "pget"
    /\ UNCHANGED <<inputs, fs, i, entries, skipped_paths, decisions, pget_bin,
                   manifest_made, batch, j, ok, skipped, err, calls>>

\* lines 219-231, after the call returned or raised
AfterPget ==
    /\ pc = "after_pget"
    /\ manifest' = None
    /\ LET use == IF batch = "ok" THEN use_pget ELSE FALSE
           printed == CASE batch = "ok" ->
                             [k \in 1..Len(entries) |->
                                 Line("stdout", "path", entries[k][2], 0, 0)]
                             \o <<Line("stderr", "done_pget", None, Len(entries), 0)>>
                        [] batch = "raise" ->
                             <<Line("stderr", "pget_failed", None, 0, 0)>>
                        [] OTHER -> <<>>
       IN  /\ use_pget' = use
           /\ out' = out \o printed
           /\ IF NeedsFallback(use, pget_bin, entries)
              THEN /\ pc' = "fallback"
                   /\ UNCHANGED <<exit_status, ended>>
              ELSE /\ pc' = "done"
                   /\ exit_status' = 0
                   /\ ended' = "pget"
    /\ UNCHANGED <<inputs, fs, i, entries, skipped_paths, decisions, pget_bin,
                   manifest_made, batch, j, ok, skipped, err, calls>>

\* lines 233-243, one iteration
FallbackOne ==
    /\ pc = "fallback"
    /\ j <= Len(entries)
    /\ LET url == entries[j][1]
           dest_path == entries[j][2]
       IN  \E r \in download_one_fallback(url, dest_path, overwrite, fs) :
              /\ fs' = r.files
              /\ calls' = Append(calls, [url |-> url, dest |-> dest_path,
                                         status |-> r.status, net |-> r.net,
                                         before |-> Content(fs, dest_path),
                                         after |-> Content(r.files, dest_path)])
              /\ CASE r.status = "ok" ->
                        /\ out' = Append(out, Line("stdout", "path", dest_path, 0, 0))
                        /\ ok' = ok + 1
                        /\ UNCHANGED <<skipped, err, pc, exit_status, ended>>
                   [] r.status = "skipped" ->
                        /\ out' = Append(out, Line("stdout", "skipped", dest_path, 0, 0))
                        /\ skipped' = skipped + 1
                        /\ UNCHANGED <<ok, err, pc, exit_status, ended>>
                   [] r.status = "error" ->
                        /\ out' = Append(out, Line("stderr", "error", None, 0, 0))
                        /\ err' = err + 1
                        /\ UNCHANGED <<ok, skipped, pc, exit_status, ended>>
                   [] OTHER ->
                        /\ out' = Append(out, Line("stderr", "traceback", None, 0, 0))
                        /\ pc' = "exited"
                        /\ exit_status' = 1
                        /\ ended' = "uncaught"
                        /\ UNCHANGED <<ok, skipped, err>>
    /\ j' = j + 1
    /\ UNCHANGED <<inputs, i, entries, skipped_paths, decisions, use_pget, pget_bin,
                   manifest, manifest_made, batch>>

\* FallbackReport without the line 247-248 exit on errors
FallbackReport_NoExit ==
    /\ pc = "fallback"
    /\ j > Len(entries)
    /\ skipped' = skipped + Len(skipped_paths)
    /\ out' = out \o SkippedLines(skipped_paths)
                  \o <<Line("stderr", "done", None, ok, skipped')>>
    /\ pc' = "done"
    /\ exit_status' = 0
    /\ ended' = "fallback"
    /\ UNCHANGED <<inputs, fs, i, entries, skipped_paths, decisions, use_pget, pget_bin,
                   manifest, manifest_made, batch, j, ok, err, calls>>

\* lines 244-249
FallbackReport ==
    /\ pc = "fallback"
    /\ j > Len(entries)
    /\ skipped' = skipped + Len(skipped_paths)
    /\ IF err # 0
       THEN /\ out' = out \o SkippedLines(skipped_paths)
            /\ pc' = "exited"
            /\ exit_status' = 1
            /\ ended' = "fallback_err"
       ELSE /\ out' = out \o SkippedLines(skipped_paths)
                          \o <<Line("stderr", "done", None, ok, skipped')>>
            /\ pc' = "done"
            /\ exit_status' = 0
            /\ ended' = "fallback"
    /\ UNCHANGED <<inputs, fs, i, entries, skipped_paths, decisions, use_pget, pget_bin,
                   manifest, manifest_made, batch, j, ok, err, calls>>

Next ==
    \/ CheckBase
    \/ ResolveLine
    \/ ReportEmpty
    \/ LocatePget
    \/ RunPget
    \/ AfterPget
    \/ FallbackOne
    \/ FallbackReport

Spec ==
    Init /\ [][Next]_vars

(* ---- resolve_url_dest applied to one line ---- *)
ResolveUrls ==
    {U_vae_ft, U_vae, U_my_lora, U_model, U_space, U_enc_slash, U_dotdot, U_nopath,
     U_trailing, U_upper, U_clip_vision, U_lora_clip, U_noscheme}

Suffixes ==
    {<<>>, <<" ">> \o S_loras, <<" ">> \o T_foo, <<" ", " ">> \o S_vae_approx \o <<" ">>}

ResolveLines ==
    {u \o t : u \in ResolveUrls, t \in Suffixes}
        \cup {<<>>, <<" ", " ">>, L_comment, <<" ">> \o U_vae \o <<" ">>}

InitResolve ==
    /\ \E raw \in ResolveLines : urls = <<raw>>
    /\ base \in {BasePlain, BaseTilde}
    /\ base_ok = TRUE
    /\ overwrite \in BOOLEAN
    /\ default_sub \in {None, S_vae, T_foo}
    /\ no_pget = FALSE
    /\ pget_env = "on_path"
    /\ \E pre \in SUBSET {resolve_url_dest(urls[1], base, TRUE, default_sub, {}).dest} :
          /\ None \notin pre
          /\ fs = [p \in pre |-> "pre"]
    /\ InitLocals

\* line 196, a single call
ResolveCall ==
    /\ pc = "start"
    /\ decisions' = <<resolve_url_dest(urls[1], base, overwrite, default_sub, DOMAIN fs)>>
    /\ pc' = "returned"
    /\ UNCHANGED <<inputs, fs, i, entries, skipped_paths, use_pget, pget_bin,
                   manifest, manifest_made, batch, j, ok, skipped, err, calls, out,
                   exit_status, ended>>

NextResolve ==
    ResolveCall

SpecResolve ==
    InitResolve /\ [][NextResolve]_vars

(* ---- properties ---- *)
Terminal ==
    pc \in {"done", "exited"}

CallPairs ==
    [k \in 1..Len(calls) |-> <<calls[k].url, calls[k].dest>>]

Count(seq, x) ==
    Cardinality({k \in 1..Len(seq) : seq[k] = x})

RECURSIVE Proceeded(_)
Proceeded(ds) ==
    IF ds = <<>> THEN <<>>
    ELSE IF Head(ds).url # None
         THEN <<<<Head(ds).url, Head(ds).dest>>>> \o Proceeded(Tail(ds))
         ELSE Proceeded(Tail(ds))

\* C1: in a finished run with a non-empty proceed set, when pget is absent or
\* its batch call failed (non-zero status or exception) the fallback fetcher
\* was called for every proceeded entry, once each and in input order; when
\* the batch call succeeded the fallback fetcher was not called.
C1_FallbackCoversProceedSet ==
    (Terminal /\ entries # <<>>) =>
        /\ (pget_bin = NoBin \/ batch \in {"nonzero", "raise"}) => CallPairs = entries
        /\ batch = "ok" => calls = <<>>

\* C2: every call of the fallback fetcher returns one of ok, skipped, error
\* (a failure never leaves the function as an exception), and a run that
\* entered the fallback pass ends only after every proceeded entry was tried.
C2_FailureIsolated ==
    /\ \A k \in 1..Len(calls) : calls[k].status \in {"ok", "skipped", "error"}
    /\ (Terminal /\ calls # <<>>) => Len(calls) = Len(entries)

\* C3: when the run has ended through the empty-proceed-set report, a
\* successful pget batch or the fallback pass, every line resolved as
\* SkipExisting has its own "skipped <path>" line on standard output.
C3_SkipExistingReported ==
    ended \in {"empty", "pget", "fallback", "fallback_err"} =>
        \A k \in 1..Len(skipped_paths) :
            Count(out, Line("stdout", "skipped", skipped_paths[k], 0, 0))
                >= Count(skipped_paths, skipped_paths[k])

\* C4: every run that got past the store-root check and ran the orchestrator
\* to its end printed the summary line with the counts as its last line.
C4_SummaryAlwaysPrinted ==
    ended \in {"empty", "pget", "fallback", "fallback_err"} =>
        /\ out # <<>>
        /\ out[Len(out)].kind \in {"done", "done_pget"}

SomeCall(status) ==
    \E k \in 1..Len(calls) : calls[k].status = status

ClaimedCategory(raw, default_subfolder) ==
    LET line == Strip(raw)
        hasToken == Find(line, " ") > 0
        token == IF hasToken THEN Strip(SplitFirst(line)[2]) ELSE None
        urlText == IF hasToken THEN SplitFirst(line)[1] ELSE line
    IN  IF hasToken /\ token \in SUBFOLDERS THEN token
        ELSE IF default_subfolder # None /\ default_subfolder \in SUBFOLDERS
             THEN default_subfolder
        ELSE infer_subfolder(urlText)

\* C6: for every non-ignored line, resolve selects (a) the explicit token
\* after the first whitespace run when it is a known category, (b) otherwise
\* a valid default category, (c) otherwise the classifier's category of the
\* URL text.
C6_CategoryPriority ==
    (pc = "returned" /\ decisions[1].subfolder # None) =>
        decisions[1].subfolder = ClaimedCategory(urls[1], default_sub)

SingleComponent(name) ==
    /\ name # <<>>
    /\ \A k \in 1..Len(name) : name[k] # "/"
    /\ name \notin {<<".">>, <<".", ".">>}

\* C7: every destination resolve returns is <store_root>/models/<category>/
\* <filename> with <category> in the category set and <filename> a single
\* path component.
C7_DestinationUnderModels ==
    (pc = "returned" /\ decisions[1].dest # None) =>
        \E c \in SUBFOLDERS :
            /\ decisions[1].dest =
                   Flatten(<<expanduser(base), <<"/">>, S_models, <<"/">>, c, <<"/">>,
                             decisions[1].name>>)
            /\ SingleComponent(decisions[1].name)

\* C8: with overwrite=false, a line whose destination is an existing file is
\* resolved as SkipExisting and not put in the proceed set, and a fallback
\* fetcher call whose destination exists returns skipped with no network
\* access and leaves the file as it was.
C8_ExistingNeverFetched ==
    ~overwrite =>
        /\ \A k \in 1..Len(decisions) :
              decisions[k].existed => (decisions[k].url = None /\ decisions[k].is_skip)
        /\ pc # "start" => entries = Proceeded(decisions)
        /\ \A k \in 1..Len(calls) :
              calls[k].before # Absent =>
                  /\ calls[k].status = "skipped"
                  /\ ~calls[k].net
                  /\ calls[k].after = calls[k].before

C8_Witness ==
    /\ ~overwrite
    /\ \E k \in 1..Len(decisions) : decisions[k].existed
    /\ \E k \in 1..Len(calls) : calls[k].before # Absent /\ calls[k].status = "skipped"

\* C9: the manifest file exists only between its creation and the end of the
\* handling of the batch call; once the orchestrator moved on to the fallback
\* pass or ended, it is removed.
C9_ManifestRemoved ==
    manifest # None => pc \in {"pget", "after_pget"}

C9_Witness ==
    /\ manifest_made
    /\ manifest = None
    /\ batch = "raise"
    /\ pc = "fallback"

KeywordOccurs(alts, s) ==
    \E kw \in alts : \E p \in 1..Len(s) : OccursAt(s, kw, p)

\* the category of the first rule one of whose keywords occurs in the text
ClaimedClassify(text) ==
    LET s == Lower(text)
        hits == {r \in 1..Len(SUBFOLDER_HINTS) : KeywordOccurs(SUBFOLDER_HINTS[r][1], s)}
    IN  IF hits = {} THEN S_checkpoints
        ELSE SUBFOLDER_HINTS[CHOOSE r \in hits : \A q \in hits : r <= q][2]

\* C10: a line holding only a URL, resolved with no default category, gets
\* the category of the first classifier rule whose keyword occurs in the
\* URL's file name (vae for ".../vae_ft.safetensors"), and checkpoints only
\* when no keyword occurs.
C10_KeywordInFilename ==
    (/\ pc = "returned"
     /\ decisions[1].subfolder # None
     /\ Find(Strip(urls[1]), " ") = 0
     /\ default_sub = None) =>
        /\ decisions[1].subfolder = ClaimedClassify(decisions[1].name)
        /\ urls[1] = U_vae_ft => decisions[1].subfolder = S_vae

====
